---------------------------- MODULE Spec2Model ----------------------------
(***************************************************************************)
(* Model of src/src/Pendulum.js: the Pendulum component (pointer handlers  *)
(* and the per-frame callback) and the PendulumScene component (toggles    *)
(* and the energy history).                                                *)
(*                                                                         *)
(* Numbers.  JavaScript doubles are modelled in fixed point:               *)
(*   angles, velocities ....... micro-radians (Math.PI = 3141593)          *)
(*   sines, cosines, factors .. thousandths   (1.0 = 1000)                 *)
(*   plane coordinates ........ thousandths of a world unit                *)
(*   energies ................. 1e-9 units                                 *)
(* Math.sin and Math.atan2 are computed by integer series, so that the     *)
(* formulas of the code are evaluated, not assumed.                        *)
(*                                                                         *)
(* Every handler runs to completion against the state of the last render   *)
(* (single-threaded host), so each handler is one action.  Inside one      *)
(* handler a value read from the closure is the value before the handler   *)
(* ran, whatever setters were called earlier in the same handler.          *)
(*                                                                         *)
(* A pointer event is modelled by the point where its ray meets the plane  *)
(* z = 0; casting the ray through the camera, and delivering the event to  *)
(* the handler, belong to the rendering library.                           *)
(***************************************************************************)
EXTENDS Integers, Sequences, FiniteSets, TLC

VARIABLES
  isDragging,      \* Pendulum state, line 14
  isClickedDown,   \* Pendulum state, line 15
  angle,           \* Pendulum state, line 16
  velocity,        \* Pendulum state, line 17
  amplitude,       \* Pendulum state, line 18
  lastGravityOn,   \* Pendulum state, line 19
  rotation,        \* pivot.current.rotation.z, the rendered rotation
  isSwinging,      \* PendulumScene state, line 165
  gravityOn,       \* PendulumScene state, line 166
  energyData,      \* PendulumScene state, lines 167-172
  lastOp,          \* history: the handler, and the branch of it, that ran last
  gravityClicked,  \* history: toggleGravity has run at least once
  pointerUpSeen,   \* history: handlePointerUp has run at least once
  frame            \* history: number of frame callbacks run so far

vars == << isDragging, isClickedDown, angle, velocity, amplitude,
           lastGravityOn, rotation, isSwinging, gravityOn, energyData,
           lastOp, gravityClicked, pointerUpSeen, frame >>

pendulumVars == << isDragging, isClickedDown, angle, velocity, amplitude,
                   lastGravityOn, rotation >>

---------------------------------------------------------------------------
(* Bounds of the exploration *)

MaxFrames == 3

\* Plane points a pointer event can arrive with (thousandths of a unit).
Points == { <<0, -2000>>, <<300, -2000>>, <<600, -2000>> }

\* Date.now() readings in ms, reduced modulo the period of sin(0.002 t).
Clock == { 262, 2356 }

---------------------------------------------------------------------------
(* Arithmetic *)

Pi == 3141593

HalfPi == Pi \div 2

TwoPi == 2 * Pi

Abs(n) == IF n < 0 THEN -n ELSE n

\* a * s / 1000, truncated toward zero, without leaving 32 bits.
MulPermille(a, s) ==
  LET sign == IF (a < 0) = (s < 0) THEN 1 ELSE -1
      ua == Abs(a)
      us == Abs(s)
  IN  sign * ((ua \div 1000) * us + ((ua % 1000) * us) \div 1000)

\* Math.sin of an angle in micro-radians, in thousandths.
Sin(x) ==
  LET r0 == x % TwoPi
      r  == IF r0 > Pi THEN r0 - TwoPi ELSE r0
      a0 == Abs(r)
      a  == IF a0 > HalfPi THEN Pi - a0 ELSE a0
      xm == (a + 500) \div 1000
      x2 == (xm * xm) \div 1000
      h3 == 100000 - (x2 * 100) \div 42
      h2 == 100000 - (x2 * h3) \div 20000
      h1 == 100000 - (x2 * h2) \div 6000
      s  == (xm * h1 + 50000) \div 100000
  IN  IF r < 0 THEN -s ELSE s

\* Math.cos of an angle in micro-radians, in thousandths.
Cos(x) == Sin(x + HalfPi)

\* Math.atan2(y, x) in micro-radians.
Atan2(y, x) ==
  LET ax == Abs(x)
      ay == Abs(y)
      big == IF ay > ax THEN ay ELSE ax
      small == IF ay > ax THEN ax ELSE ay
      a  == IF big = 0 THEN 0 ELSE (small * 1000) \div big
      r0 == (a * (Pi \div 4)) \div 1000 + (273 * a * (1000 - a)) \div 1000
      r1 == IF ay > ax THEN HalfPi - r0 ELSE r0
      r2 == IF x < 0 THEN Pi - r1 ELSE r1
  IN  IF y < 0 THEN -r2 ELSE r2

\* Squared distance of two plane points.
DistanceSq(p, q) ==
  (p[1] - q[1]) * (p[1] - q[1]) + (p[2] - q[2]) * (p[2] - q[2])

---------------------------------------------------------------------------
(* Pendulum *)

Length == 2

GrabRadius == 500

Gravity == 1000

Damping == 999

\* sphere.current.position: the position given to the Sphere in its group.
SpherePosition == << 0, -(Length * 1000) >>

\* Where the bob is drawn: the Sphere's position turned by the group's
\* rotation about z.
RenderedBob(rot) ==
  << MulPermille(Length * 1000, Sin(rot)),
     -MulPermille(Length * 1000, Cos(rot)) >>

calculateAngleFromMouse(p) == Atan2(p[2], p[1])

NearSphere_Always(p) == TRUE

\* the grab test of handlePointerDown
NearSphere(p) == DistanceSq(p, SpherePosition) < GrabRadius * GrabRadius

GrabAmplitude_Signed(newAngle) == newAngle

\* the amplitude a grab stores
GrabAmplitude(newAngle) == Abs(newAngle)

GrabVelocity_Kept == velocity

\* the velocity a grab stores
GrabVelocity == 0

handlePointerDown(p) ==
  /\ IF NearSphere(p)
       THEN /\ isDragging' = TRUE
            /\ isClickedDown' = TRUE
            /\ angle' = calculateAngleFromMouse(p)
            /\ velocity' = GrabVelocity
            /\ amplitude' = GrabAmplitude(calculateAngleFromMouse(p))
            /\ lastOp' = "grab"
       ELSE /\ UNCHANGED << isDragging, isClickedDown, angle, velocity,
                            amplitude >>
            /\ lastOp' = "miss"
  /\ UNCHANGED << lastGravityOn, rotation, isSwinging, gravityOn,
                  energyData, gravityClicked, pointerUpSeen, frame >>

MoveActs_DraggingOnly == isDragging

\* the guard of handlePointerMove
MoveActs == isDragging /\ isClickedDown

handlePointerMove(p) ==
  /\ IF MoveActs
       THEN /\ angle' = calculateAngleFromMouse(p) + HalfPi
            /\ rotation' = calculateAngleFromMouse(p) + HalfPi
            /\ lastOp' = "drag"
       ELSE /\ UNCHANGED << angle, rotation >>
            /\ lastOp' = "hover"
  /\ UNCHANGED << isDragging, isClickedDown, velocity, amplitude,
                  lastGravityOn, isSwinging, gravityOn, energyData,
                  gravityClicked, pointerUpSeen, frame >>

handlePointerUp_WhileDragging ==
  /\ IF isDragging /\ isClickedDown
       THEN isDragging' = FALSE /\ isClickedDown' = FALSE
       ELSE UNCHANGED << isDragging, isClickedDown >>
  /\ lastOp' = "up"
  /\ pointerUpSeen' = TRUE
  /\ UNCHANGED << angle, velocity, amplitude, lastGravityOn, rotation,
                  isSwinging, gravityOn, energyData, gravityClicked, frame >>

handlePointerUp_DraggingOnly ==
  /\ isDragging' = FALSE
  /\ UNCHANGED isClickedDown
  /\ lastOp' = "up"
  /\ pointerUpSeen' = TRUE
  /\ UNCHANGED << angle, velocity, amplitude, lastGravityOn, rotation,
                  isSwinging, gravityOn, energyData, gravityClicked, frame >>

handlePointerUp ==
  /\ isDragging' = FALSE
  /\ isClickedDown' = FALSE
  /\ lastOp' = "up"
  /\ pointerUpSeen' = TRUE
  /\ UNCHANGED << angle, velocity, amplitude, lastGravityOn, rotation,
                  isSwinging, gravityOn, energyData, gravityClicked, frame >>

---------------------------------------------------------------------------
(* PendulumScene *)

NextTime_NoIncrement(prevState) ==
  IF Len(prevState.time) # 0
    THEN prevState.time[Len(prevState.time)]
    ELSE 0

\* the time given to a new sample
NextTime(prevState) ==
  IF Len(prevState.time) # 0
    THEN prevState.time[Len(prevState.time)] + 1
    ELSE 0

handleEnergyUpdate_LatestOnly(prevState, energy) ==
  [ mechanicalEnergy |-> << energy.mechanicalEnergy >>,
    potentialEnergy |-> << energy.potentialEnergy >>,
    kineticEnergy |-> << energy.kineticEnergy >>,
    time |-> << NextTime(prevState) >> ]

handleEnergyUpdate(prevState, energy) ==
  [ mechanicalEnergy |->
      Append(prevState.mechanicalEnergy, energy.mechanicalEnergy),
    potentialEnergy |->
      Append(prevState.potentialEnergy, energy.potentialEnergy),
    kineticEnergy |->
      Append(prevState.kineticEnergy, energy.kineticEnergy),
    time |-> Append(prevState.time, NextTime(prevState)) ]

toggleSwinging ==
  /\ isSwinging' = ~isSwinging
  /\ lastOp' = "toggleSwinging"
  /\ UNCHANGED << pendulumVars, gravityOn, energyData, gravityClicked,
                  pointerUpSeen, frame >>

toggleGravity ==
  /\ gravityOn' = ~gravityOn
  /\ gravityClicked' = TRUE
  /\ lastOp' = "toggleGravity"
  /\ UNCHANGED << pendulumVars, isSwinging, energyData, pointerUpSeen,
                  frame >>

---------------------------------------------------------------------------
(* The frame callback of Pendulum *)

\* the transition test
GravityTurnedOff == lastGravityOn # gravityOn /\ ~gravityOn

IntegratorRuns_SwingingOnly == isSwinging

IntegratorRuns_ClickedOnly == isSwinging /\ ~isClickedDown

\* the gate of the integrator
IntegratorRuns == isSwinging /\ ~isDragging

Acceleration_Cos(prevAngle) == -MulPermille(Gravity, Cos(prevAngle))

Acceleration(prevAngle) == -MulPermille(Gravity, Sin(prevAngle))

NewVelocity(prevAngle) ==
  MulPermille(velocity + Acceleration(prevAngle), Damping)

GravityOnAngle_OldVelocity(prevAngle) == prevAngle + velocity

GravityOnAngle(prevAngle) == prevAngle + NewVelocity(prevAngle)

KineticEnergy(newVelocity) ==
  ((Length * newVelocity) * (Length * newVelocity)) \div 2000

PotentialEnergy(newAngle) ==
  (Gravity * Length * (1000 - Cos(newAngle))) \div 1000

Energy(newVelocity, newAngle) ==
  [ kineticEnergy |-> KineticEnergy(newVelocity),
    potentialEnergy |-> PotentialEnergy(newAngle),
    mechanicalEnergy |->
      KineticEnergy(newVelocity) + PotentialEnergy(newAngle) ]

\* the sinusoid factor of the gravity-off branch, for a clock reading
SinusoidFactor(now) == Sin(2000 * now)

GravityOffVelocity_Damped == MulPermille(velocity, Damping)

\* the velocity after a gravity-off frame: the branch sets the angle only
GravityOffVelocity == velocity

\* the gravity-off angle; amplitude is the closure's value
GravityOffAngle(now) == MulPermille(amplitude, SinusoidFactor(now))

SampledHistory_Twice(prevAngle) ==
  handleEnergyUpdate(
    handleEnergyUpdate(energyData,
                       Energy(NewVelocity(prevAngle), GravityOnAngle(prevAngle))),
    Energy(NewVelocity(prevAngle), GravityOnAngle(prevAngle)))

\* the history after a gravity-on frame
SampledHistory(prevAngle) ==
  handleEnergyUpdate(energyData,
                     Energy(NewVelocity(prevAngle), GravityOnAngle(prevAngle)))

useFrame(now) ==
  /\ frame < MaxFrames
  /\ frame' = frame + 1
  /\ amplitude' = IF GravityTurnedOff THEN angle ELSE amplitude
  /\ lastGravityOn' = gravityOn
  /\ IF IntegratorRuns
       THEN IF gravityOn
              THEN /\ velocity' = NewVelocity(angle)
                   /\ angle' = GravityOnAngle(angle)
                   /\ rotation' = GravityOnAngle(angle)
                   /\ energyData' = SampledHistory(angle)
                   /\ lastOp' = "frameGravityOn"
              ELSE /\ angle' = GravityOffAngle(now)
                   /\ rotation' = GravityOffAngle(now)
                   /\ velocity' = GravityOffVelocity
                   /\ UNCHANGED energyData
                   /\ lastOp' = "frameGravityOff"
       ELSE /\ UNCHANGED << angle, velocity, rotation, energyData >>
            /\ lastOp' = "frameIdle"
  /\ UNCHANGED << isDragging, isClickedDown, isSwinging, gravityOn,
                  gravityClicked, pointerUpSeen >>

---------------------------------------------------------------------------
(* The program *)

Init ==
  /\ isDragging = TRUE
  /\ isClickedDown = FALSE
  /\ angle = HalfPi
  /\ velocity = 0
  /\ amplitude = HalfPi
  /\ lastGravityOn = TRUE
  /\ rotation = 0
  /\ isSwinging = TRUE
  /\ gravityOn = FALSE
  /\ energyData = [ mechanicalEnergy |-> << >>, potentialEnergy |-> << >>,
                    kineticEnergy |-> << >>, time |-> << >> ]
  /\ lastOp = "init"
  /\ gravityClicked = FALSE
  /\ pointerUpSeen = FALSE
  /\ frame = 0

PointerDown == \E p \in Points : handlePointerDown(p)

PointerMove == \E p \in Points : handlePointerMove(p)

Frame == \E now \in Clock : useFrame(now)

Next ==
  \/ PointerDown
  \/ PointerMove
  \/ handlePointerUp
  \/ Frame
  \/ toggleSwinging
  \/ toggleGravity

Spec == Init /\ [][Next]_vars

---------------------------------------------------------------------------
(* Properties *)

\* C1: on a frame that detects a user's change of gravity from on to off and
\* runs the integrator, amplitude becomes the angle held at that frame and
\* the angle computed by the same frame is that captured angle scaled by
\* the sinusoid factor.
C1_CapturedAmplitudeDrivesSameFrame ==
  [][\A now \in Clock :
       (useFrame(now) /\ gravityClicked /\ lastGravityOn /\ ~gravityOn
          /\ isSwinging /\ ~isDragging)
       => /\ amplitude' = angle
          /\ angle' = MulPermille(angle, Sin(2000 * now))]_vars

\* C2: amplitude changes only in a pointerDown that starts a drag (to
\* |angle|) or in a frame that follows a user's change of gravity from on
\* to off (to the current angle).
C2_AmplitudeWriters ==
  [][amplitude' # amplitude
       => \/ lastOp' = "grab" /\ amplitude' = Abs(angle')
          \/ /\ lastOp' \in {"frameGravityOn", "frameGravityOff", "frameIdle"}
             /\ gravityClicked /\ lastGravityOn /\ ~gravityOn
             /\ amplitude' = angle]_vars

\* C3: in the initial state, before any event, isDragging and isClickedDown
\* are both false.
C3_StartsIdle == lastOp = "init" => (~isDragging /\ ~isClickedDown)

\* C4: a frame taken with isSwinging false or isDragging true leaves angle,
\* velocity, the rendered rotation and the energy history unchanged.
C4_ClosedGateFrame ==
  [][\A now \in Clock :
       (useFrame(now) /\ (~isSwinging \/ isDragging))
       => UNCHANGED << angle, velocity, rotation, energyData >>]_vars

C4_Witness ==
  /\ lastOp = "frameIdle"
  /\ ~isSwinging
  /\ ~isDragging
  /\ gravityOn
  /\ velocity # 0

\* C5: the energy history grows by exactly one sample in a frame taken with
\* gravityOn, isSwinging and not isDragging, and keeps its length in every
\* other step.
C5_HistoryGrowth ==
  [][IF (\E now \in Clock : useFrame(now))
          /\ gravityOn /\ isSwinging /\ ~isDragging
       THEN Len(energyData'.time) = Len(energyData.time) + 1
       ELSE Len(energyData'.time) = Len(energyData.time)]_vars

C5_Witness ==
  /\ lastOp = "frameGravityOn"
  /\ Len(energyData.time) = 2

\* C6: the time series of the energy history is 0, 1, ..., n-1 and the four
\* series have the same length n.
C6_TimeIsIndex ==
  /\ \A i \in 1..Len(energyData.time) : energyData.time[i] = i - 1
  /\ Len(energyData.mechanicalEnergy) = Len(energyData.time)
  /\ Len(energyData.potentialEnergy) = Len(energyData.time)
  /\ Len(energyData.kineticEnergy) = Len(energyData.time)

C6_Witness == energyData.time = << 0, 1, 2 >>

\* C7: a pointerDown starts a drag exactly when the pointer's plane point is
\* less than 0.5 away from the bob as drawn under the current rotation.
C7_GrabNearRenderedBob ==
  [][\A p \in Points :
       handlePointerDown(p)
       => (lastOp' = "grab"
             <=> DistanceSq(p, RenderedBob(rotation))
                   < GrabRadius * GrabRadius)]_vars

\* C8: a pointerDown that passes the grab test leaves isDragging and
\* isClickedDown true, velocity 0, angle the pointer's angle (no pi/2
\* offset) and amplitude the absolute value of that angle.
C8_GrabResult ==
  [][\A p \in Points :
       (handlePointerDown(p)
          /\ DistanceSq(p, SpherePosition) < GrabRadius * GrabRadius)
       => /\ isDragging' /\ isClickedDown'
          /\ velocity' = 0
          /\ angle' = Atan2(p[2], p[1])
          /\ amplitude' = Abs(Atan2(p[2], p[1]))]_vars

C8_Witness ==
  /\ lastOp = "grab"
  /\ isDragging /\ isClickedDown
  /\ velocity = 0
  /\ angle < 0
  /\ amplitude = -angle
  /\ Len(energyData.time) > 0

\* C9: a pointerDown that fails the grab test changes none of isDragging,
\* isClickedDown, angle, velocity, amplitude, the rendered rotation and the
\* energy history.
C9_MissIsNoOp ==
  [][\A p \in Points :
       (handlePointerDown(p)
          /\ ~(DistanceSq(p, SpherePosition) < GrabRadius * GrabRadius))
       => UNCHANGED << isDragging, isClickedDown, angle, velocity, amplitude,
                       rotation, energyData >>]_vars

C9_Witness ==
  /\ lastOp = "miss"
  /\ ~isDragging /\ ~isClickedDown
  /\ velocity # 0

\* C10: pointerMove, when isDragging and isClickedDown are both true, sets
\* angle and the rendered rotation to the pointer's angle plus pi/2 and
\* leaves velocity, amplitude and both flags unchanged; in every other
\* state it changes nothing.
C10_MoveOnlyWhileDragging ==
  [][\A p \in Points :
       handlePointerMove(p)
       => IF isDragging /\ isClickedDown
            THEN /\ angle' = Atan2(p[2], p[1]) + HalfPi
                 /\ rotation' = Atan2(p[2], p[1]) + HalfPi
                 /\ UNCHANGED << velocity, amplitude, isDragging,
                                 isClickedDown >>
            ELSE UNCHANGED << pendulumVars, isSwinging, gravityOn,
                              energyData >>]_vars

C10_Witness ==
  /\ lastOp = "drag"
  /\ isDragging /\ isClickedDown
  /\ rotation = angle
  /\ angle = Atan2(-2000, 300) + HalfPi
  /\ amplitude # Abs(angle)

\* C11: pointerUp, from any state, leaves isDragging and isClickedDown false
\* and does not change angle, velocity or amplitude.
C11_PointerUpClears ==
  [][lastOp' = "up"
       => /\ ~isDragging' /\ ~isClickedDown'
          /\ UNCHANGED << angle, velocity, amplitude >>]_vars

C11_Witness ==
  /\ lastOp = "up"
  /\ ~isDragging /\ ~isClickedDown
  /\ velocity # 0
  /\ amplitude # Abs(angle)

\* C12: after a frame that applied the gravity-off formula, the angle lies
\* within [-amplitude, amplitude] for the amplitude stored after that frame.
C12_AngleWithinAmplitude ==
  lastOp = "frameGravityOff" => (-amplitude <= angle /\ angle <= amplitude)

\* C13: after every frame, the rendered rotation of the pivot group equals
\* the logical angle.
C13_RotationFollowsAngle ==
  lastOp \in {"frameGravityOn", "frameGravityOff", "frameIdle"}
    => rotation = angle

\* C14: a frame taken with gravity off does not change velocity, and the
\* first gravity-on frame after gravity-off frames integrates from that
\* stored velocity.
C14_GravityOffKeepsVelocity ==
  [][\A now \in Clock :
       /\ (useFrame(now) /\ ~gravityOn) => velocity' = velocity
       /\ (useFrame(now) /\ gravityOn /\ ~lastGravityOn
             /\ isSwinging /\ ~isDragging)
          => velocity' =
               MulPermille(velocity - MulPermille(Gravity, Sin(angle)),
                           Damping)]_vars

C14_Witness ==
  /\ lastOp = "frameGravityOff"
  /\ velocity # 0
  /\ rotation = angle
  /\ frame >= 2

\* C15: with gravity on, swinging on and not dragging, a frame taken at
\* angle = 0, velocity = 0 leaves angle = 0 and velocity = 0.
C15_RestIsFixedPoint ==
  [][\A now \in Clock :
       (useFrame(now) /\ gravityOn /\ isSwinging /\ ~isDragging
          /\ angle = 0 /\ velocity = 0)
       => (angle' = 0 /\ velocity' = 0)]_vars

C15_Witness ==
  /\ lastOp = "frameGravityOn"
  /\ angle = 0 /\ velocity = 0
  /\ Len(energyData.time) = 3

\* C16: every step leaves the recorded samples and their order unchanged:
\* each series of the history before the step is a prefix of the same
\* series after it.
C16_HistoryAppendOnly ==
  [][/\ Len(energyData'.time) >= Len(energyData.time)
     /\ SubSeq(energyData'.time, 1, Len(energyData.time))
          = energyData.time
     /\ SubSeq(energyData'.mechanicalEnergy, 1,
               Len(energyData.mechanicalEnergy))
          = energyData.mechanicalEnergy
     /\ SubSeq(energyData'.potentialEnergy, 1,
               Len(energyData.potentialEnergy))
          = energyData.potentialEnergy
     /\ SubSeq(energyData'.kineticEnergy, 1,
               Len(energyData.kineticEnergy))
          = energyData.kineticEnergy]_vars

C16_Witness ==
  /\ Len(energyData.mechanicalEnergy) = 3
  /\ energyData.mechanicalEnergy[1] # energyData.mechanicalEnergy[3]
  /\ lastOp = "toggleSwinging"

\* C17: a gravity-on frame computes the acceleration from the angle before
\* the frame, the new velocity as (old velocity + acceleration) times the
\* damping factor, and the new angle as the old angle plus the new
\* velocity; from angle = pi/2, velocity = 0 the velocity becomes negative
\* and the angle drops by its magnitude.
C17_SemiImplicitEuler ==
  [][\A now \in Clock :
       (useFrame(now) /\ gravityOn /\ isSwinging /\ ~isDragging)
       => /\ velocity' =
               MulPermille(velocity - MulPermille(Gravity, Sin(angle)),
                           Damping)
          /\ angle' = angle + velocity'
          /\ (angle = HalfPi /\ velocity = 0)
               => (velocity' < 0 /\ angle' = HalfPi - Abs(velocity'))]_vars

C17_Witness ==
  /\ lastOp = "frameGravityOn"
  /\ velocity = -999
  /\ angle = HalfPi - 999

\* C18: until a pointerUp has occurred, no frame changes angle, velocity,
\* the rendered rotation or the energy history, however isSwinging and
\* gravityOn were toggled and whatever pointerDown and pointerMove events
\* occurred.
C18_NoMotionBeforeFirstPointerUp ==
  [][((\E now \in Clock : useFrame(now)) /\ ~pointerUpSeen)
       => UNCHANGED << angle, velocity, rotation, energyData >>]_vars

C18_Witness ==
  /\ lastOp = "frameIdle"
  /\ ~pointerUpSeen
  /\ isSwinging /\ gravityOn
  /\ isClickedDown
  /\ rotation # 0
  /\ frame = 3

\* C19: isClickedDown implies isDragging in every state; a pointerDown that
\* starts a drag and a pointerUp both leave the two flags equal, and once
\* the flags are equal every step keeps them equal.
C19_FlagsAgree ==
  [][/\ isClickedDown => isDragging
     /\ isClickedDown' => isDragging'
     /\ lastOp' \in {"grab", "up"} => isDragging' = isClickedDown'
     /\ isDragging = isClickedDown => isDragging' = isClickedDown']_vars

C19_Witness ==
  /\ isDragging /\ isClickedDown
  /\ pointerUpSeen
  /\ lastOp = "frameIdle"
  /\ Len(energyData.time) = 1

\* C20: in every state in which isDragging is true the stored velocity is 0.
C20_DraggingMeansAtRest == isDragging => velocity = 0

C20_Witness ==
  /\ isDragging
  /\ velocity = 0
  /\ pointerUpSeen
  /\ lastOp = "drag"
  /\ Len(energyData.time) = 2
  /\ energyData.kineticEnergy[2] # 0

=============================================================================
